---- MODULE Spec2Model ----
(***************************************************************************)
(* Model of rdflib_endpoint.sparql_router.SparqlRouter: the constructor,   *)
(* the GET and POST query handlers, the negotiation of the response media  *)
(* type, and eval_custom_functions, the evaluator of Extend (BIND) nodes.  *)
(*                                                                         *)
(* Texts are sequences of one-character strings, so that the conversions   *)
(* of the code (re.sub, parse_qsl, unquote) are computed character by      *)
(* character.  rdflib (the parser, the evaluator of the other algebra      *)
(* nodes, the serializers) is outside the repository: what it returns for  *)
(* the query in hand is the value of the variable lib.                     *)
(***************************************************************************)
EXTENDS Integers, Sequences, FiniteSets, TLC

----------------------------------------------------------------------------
(* Bounds of the model.                                                    *)

\* longest sequence of bindings the child of an Extend node yields
MaxBindings == 2
\* most routers constructed in one process
MaxRouters == 2
\* longest query text sent in a POST body
MaxQueryLen == 3

----------------------------------------------------------------------------
(* Module constants of sparql_router.py.                                   *)

DEFAULT_CONTENT_TYPE == "application/xml"

CONTENT_TYPE_TO_RDFLIB_FORMAT ==
    ("application/sparql-results+json" :> "json") @@
    ("application/json" :> "json") @@
    ("text/json" :> "json") @@
    ("application/sparql-results+xml" :> "xml") @@
    ("application/xml" :> "xml") @@
    ("application/rdf+xml" :> "xml") @@
    ("text/xml" :> "xml") @@
    ("application/sparql-results+csv" :> "csv") @@
    ("text/csv" :> "csv") @@
    ("text/turtle" :> "ttl")

\* request.headers has no "accept" entry
NoHeader == "(no accept header)"

\* Accept values that are no key of the table
UnlistedAccept ==
    {"", "*/*", "text/html", "text/html,application/xhtml+xml",
     "application/json,*/*;q=0.9"}

AcceptValues == DOMAIN CONTENT_TYPE_TO_RDFLIB_FORMAT \cup UnlistedAccept

\* str.startswith("text/html"), on the Accept values of the model
StartsWithTextHtml(accept) ==
    accept \in {"text/html", "text/html,application/xhtml+xml"}

----------------------------------------------------------------------------
(* Query classification: the name of the algebra root and                  *)
(* re.sub(r"(\w)([A-Z])", r"\1 \2", name).                                 *)

SelectQuery == <<"S","e","l","e","c","t","Q","u","e","r","y">>
ConstructQuery == <<"C","o","n","s","t","r","u","c","t","Q","u","e","r","y">>
AskQuery == <<"A","s","k","Q","u","e","r","y">>
DescribeQuery == <<"D","e","s","c","r","i","b","e","Q","u","e","r","y">>

AlgebraNames == {SelectQuery, ConstructQuery, AskQuery, DescribeQuery}

UpperCase ==
    {"A","B","C","D","E","F","G","H","I","J","K","L","M",
     "N","O","P","Q","R","S","T","U","V","W","X","Y","Z"}

LowerCase ==
    {"a","b","c","d","e","f","g","h","i","j","k","l","m",
     "n","o","p","q","r","s","t","u","v","w","x","y","z"}

Digits == {"0","1","2","3","4","5","6","7","8","9"}

\* \w
WordChars == UpperCase \cup LowerCase \cup Digits \cup {"_"}

RECURSIVE ReSubFrom(_, _)
\* the non-overlapping matches of (\w)([A-Z]), leftmost first, from position i
ReSubFrom(s, i) ==
    IF i > Len(s) THEN <<>>
    ELSE IF i < Len(s) /\ s[i] \in WordChars /\ s[i+1] \in UpperCase
         THEN <<s[i], " ", s[i+1]>> \o ReSubFrom(s, i + 2)
         ELSE <<s[i]>> \o ReSubFrom(s, i + 1)

query_operation_of(name) == ReSubFrom(name, 1)

ConstructQueryLabel ==
    <<"C","o","n","s","t","r","u","c","t"," ","Q","u","e","r","y">>

----------------------------------------------------------------------------
(* Content negotiation, lines 235-252 of sparql_endpoint.                  *)

\* request.headers.get("accept") or DEFAULT_CONTENT_TYPE
AcceptOrDefault(accept) ==
    IF accept = NoHeader \/ accept = "" THEN DEFAULT_CONTENT_TYPE ELSE accept

\* FallBack with another default than DEFAULT_CONTENT_TYPE
FallBack_WrongDefault(mime) ==
    IF mime \notin DOMAIN CONTENT_TYPE_TO_RDFLIB_FORMAT
    THEN "text/xml" ELSE mime

\* lines 240-241
FallBack(mime) ==
    IF mime \notin DOMAIN CONTENT_TYPE_TO_RDFLIB_FORMAT
    THEN DEFAULT_CONTENT_TYPE ELSE mime

ConstructMimeType(mime) ==
    IF mime \in {"application/json", "text/csv"} THEN "text/turtle"
    ELSE IF mime = "application/xml" THEN "application/rdf+xml"
    ELSE mime

output_mime_type_of(accept, query_operation) ==
    LET resolved == FallBack(AcceptOrDefault(accept))
    IN  IF query_operation = ConstructQueryLabel
        THEN ConstructMimeType(resolved) ELSE resolved

----------------------------------------------------------------------------
(* Terms, bindings, contexts and algebra nodes as eval_custom_functions    *)
(* sees them.                                                              *)

Vars == {"x", "y"}

Unbound == <<"Unbound", "">>

\* rdflib.Literal(result): the term becomes a literal with the same lexical form
Literal(term) == <<"Literal", term[2]>>

\* FrozenBindings.merge({var: term}): a new binding, the receiver is left alone
merge(binding, var, term) == [binding EXCEPT ![var] = term]

\* FrozenBindings.forget(ctx, _except=vars): drops what the enclosing context
\* had bound already, except the variables of the node
forget(binding, ctx, vars) ==
    [v \in Vars |-> IF v \in vars \/ v \notin ctx.bound
                    THEN binding[v] ELSE Unbound]

\* evalPart(ctx, part.p): the child subtree stands for the bindings it yields
evalPart(ctx, p) == p

\* part._vars: the variables of the child and the target variable
PartVars(part) ==
    {part.var} \cup
    {v \in Vars : \E k \in 1..Len(part.p) : part.p[k][v] # Unbound}

\* hasattr(part.expr, "iri")
HasIri(expr) == expr.kind = "function"

FunctionCall(iri) == [kind |-> "function", iri |-> iri, op |-> "call", arg |-> "x"]

BuiltinExpr(op, arg) == [kind |-> "builtin", iri |-> "", op |-> op, arg |-> arg]

NoExpr == [kind |-> "none", iri |-> "", op |-> "none", arg |-> "x"]

\* _eval(expr, binding) for the built-in expressions of the model:
\* a constant, the value of a variable (an error when it is unbound), and an
\* expression whose evaluation is a SPARQLError
BuiltinEval(expr, binding) ==
    CASE expr.op = "const" -> [error |-> FALSE, value |-> <<"Literal", "k">>]
      [] expr.op = "var" ->
            IF binding[expr.arg] = Unbound
            THEN [error |-> TRUE, value |-> Unbound]
            ELSE [error |-> FALSE, value |-> binding[expr.arg]]
      [] OTHER -> [error |-> TRUE, value |-> Unbound]

----------------------------------------------------------------------------
(* Custom functions: the callables a host registers.  Each takes           *)
(* (query_results, ctx, part, eval_part) and returns the new               *)
(* (query_results, ctx, part), or raises.                                  *)

FunctionUris == {"urn:f", "urn:g"}

OtherUri(uri) == IF uri = "urn:f" THEN "urn:g" ELSE "urn:f"

\* "append": adds eval_part with the target variable bound, like the
\*           functions of the package's examples;
\* "latest": returns only the binding in hand and a changed context;
\* "retarget": appends and returns a node whose expression calls another URI;
\* "raise": raises
FunctionImpls == {"append", "latest", "retarget", "raise"}

Apply(fn, query_results, ctx, part, eval_part) ==
    LET bound == merge(eval_part, part.var, <<"Literal", fn>>)
    IN  CASE fn = "append" ->
                [raised |-> FALSE, results |-> Append(query_results, bound),
                 ctx |-> ctx, part |-> part]
          [] fn = "latest" ->
                [raised |-> FALSE, results |-> <<bound>>,
                 ctx |-> [ctx EXCEPT !.gen = ctx.gen + 1], part |-> part]
          [] fn = "retarget" ->
                [raised |-> FALSE, results |-> Append(query_results, bound),
                 ctx |-> ctx,
                 part |-> [part EXCEPT !.expr = FunctionCall(OtherUri(part.expr.iri))]]
          [] OTHER ->
                [raised |-> TRUE, results |-> query_results,
                 ctx |-> ctx, part |-> part]

----------------------------------------------------------------------------
(* eval_custom_functions, lines 291-324.  The state of the loops is        *)
(* [results, ctx, part, calls, status]; calls logs every invocation of a   *)
(* custom function with the arguments it was given.                        *)

\* InvokeCustom that drops the context the function returns
InvokeCustom_KeepsContext(entry, st, eval_part) ==
    LET r == Apply(entry.fn, st.results, st.ctx, st.part, eval_part)
        call == [uri |-> entry.uri, fn |-> entry.fn, results |-> st.results,
                 ctx |-> st.ctx, part |-> st.part, eval_part |-> eval_part,
                 out |-> [results |-> r.results, ctx |-> r.ctx, part |-> r.part]]
    IN  [results |-> r.results, ctx |-> st.ctx, part |-> r.part,
         calls |-> Append(st.calls, call),
         status |-> IF r.raised THEN "raised" ELSE st.status]

\* line 312: query_results, ctx, part, _ = custom_function(...)
InvokeCustom(entry, st, eval_part) ==
    LET r == Apply(entry.fn, st.results, st.ctx, st.part, eval_part)
        call == [uri |-> entry.uri, fn |-> entry.fn, results |-> st.results,
                 ctx |-> st.ctx, part |-> st.part, eval_part |-> eval_part,
                 out |-> [results |-> r.results, ctx |-> r.ctx, part |-> r.part]]
    IN  [results |-> r.results, ctx |-> r.ctx, part |-> r.part,
         calls |-> Append(st.calls, call),
         status |-> IF r.raised THEN "raised" ELSE st.status]

RECURSIVE ScanFunctions(_, _, _, _)
\* lines 308-312: for function_uri, custom_function in self.functions.items()
ScanFunctions(functions, j, st, eval_part) ==
    IF j > Len(functions) \/ st.status # "ok" THEN st
    ELSE IF st.part.expr.iri = functions[j].uri
         THEN ScanFunctions(functions, j + 1,
                            InvokeCustom(functions[j], st, eval_part), eval_part)
         ELSE ScanFunctions(functions, j + 1, st, eval_part)

\* EvalBuiltin that puts the new binding in front of the results
EvalBuiltin_Prepend(st, eval_part) ==
    LET evaluation == BuiltinEval(st.part.expr,
                                  forget(eval_part, st.ctx, PartVars(st.part)))
    IN  IF evaluation.error
        THEN [st EXCEPT !.status = "raised"]
        ELSE [st EXCEPT !.results =
                 <<merge(eval_part, st.part.var, Literal(evaluation.value))>>
                 \o st.results]

\* lines 316-321: the built-in branch
EvalBuiltin(st, eval_part) ==
    LET evaluation == BuiltinEval(st.part.expr,
                                  forget(eval_part, st.ctx, PartVars(st.part)))
    IN  IF evaluation.error
        THEN [st EXCEPT !.status = "raised"]
        ELSE [st EXCEPT !.results =
                 Append(st.results,
                        merge(eval_part, st.part.var, Literal(evaluation.value)))]

\* lines 304-321: the body of the loop, for one binding of the child
EvalStep(functions, st, eval_part) ==
    IF HasIri(st.part.expr)
    THEN ScanFunctions(functions, 1, st, eval_part)
    ELSE EvalBuiltin(st, eval_part)

RECURSIVE EvalLoop(_, _, _, _)
\* line 304: for eval_part in evalPart(ctx, part.p)
EvalLoop(functions, child, i, st) ==
    IF i > Len(child) \/ st.status # "ok" THEN st
    ELSE EvalLoop(functions, child, i + 1, EvalStep(functions, st, child[i]))

eval_custom_functions(functions, ctx, part) ==
    LET start == [results |-> <<>>, ctx |-> ctx, part |-> part,
                  calls |-> <<>>, status |-> "ok"]
    IN  IF part.name = "Extend"
        THEN EvalLoop(functions, evalPart(ctx, part.p), 1, start)
        ELSE [start EXCEPT !.status = "NotImplementedError"]

----------------------------------------------------------------------------
(* urllib.parse as post_sparql_endpoint uses it (lines 283-288), and the   *)
(* encoding a client applies to a form field.                              *)

\* the printable ASCII characters, from code 32 to code 126 (code 96, the
\* grave accent, is written "(grave)")
Ascii ==
    <<" ","!","\"","#","$","%","&","'","(",")","*","+",",","-",".","/",
      "0","1","2","3","4","5","6","7","8","9",":",";","<","=",">","?",
      "@","A","B","C","D","E","F","G","H","I","J","K","L","M","N","O",
      "P","Q","R","S","T","U","V","W","X","Y","Z","[","\\","]","^","_",
      "(grave)","a","b","c","d","e","f","g","h","i","j","k","l","m","n","o",
      "p","q","r","s","t","u","v","w","x","y","z","{","|","}","~">>

HexDigits == <<"0","1","2","3","4","5","6","7","8","9","A","B","C","D","E","F">>

Ord(c) == 31 + CHOOSE k \in 1..Len(Ascii) : Ascii[k] = c

\* a byte outside the printable range decodes to a control character or to
\* the replacement character
Chr(n) == IF n >= 32 /\ n <= 126 THEN Ascii[n - 31] ELSE "(unprintable)"

IsHex(c) ==
    c \in Digits \cup {"a","b","c","d","e","f","A","B","C","D","E","F"}

HexValue(c) ==
    CASE c \in Digits -> Ord(c) - 48
      [] c \in {"a","b","c","d","e","f"} -> Ord(c) - 87
      [] OTHER -> Ord(c) - 55

RECURSIVE UnquoteFrom(_, _)
UnquoteFrom(s, i) ==
    IF i > Len(s) THEN <<>>
    ELSE IF s[i] = "%" /\ i + 2 <= Len(s) /\ IsHex(s[i+1]) /\ IsHex(s[i+2])
         THEN <<Chr(16 * HexValue(s[i+1]) + HexValue(s[i+2]))>>
              \o UnquoteFrom(s, i + 3)
         ELSE <<s[i]>> \o UnquoteFrom(s, i + 1)

\* urllib.parse.unquote
unquote(s) == UnquoteFrom(s, 1)

\* str.replace("+", " ")
PlusToSpace(s) == [k \in 1..Len(s) |-> IF s[k] = "+" THEN " " ELSE s[k]]

\* the position of the first c in s from position i on, or 0
FirstIndex(s, c, i) ==
    IF \E k \in i..Len(s) : s[k] = c
    THEN CHOOSE k \in i..Len(s) : s[k] = c /\ \A m \in i..(k-1) : s[m] # c
    ELSE 0

RECURSIVE SplitFrom(_, _, _)
\* str.split(c), from position i on
SplitFrom(s, c, i) ==
    LET k == FirstIndex(s, c, i)
    IN  IF k = 0 THEN <<SubSeq(s, i, Len(s))>>
        ELSE <<SubSeq(s, i, k - 1)>> \o SplitFrom(s, c, k + 1)

\* one name=value field of parse_qsl: fields without "=" or with a blank
\* value are skipped (keep_blank_values is False)
ParseField(field) ==
    LET k == FirstIndex(field, "=", 1)
    IN  IF k = 0 \/ k = Len(field) THEN <<>>
        ELSE << <<unquote(PlusToSpace(SubSeq(field, 1, k - 1))),
                  unquote(PlusToSpace(SubSeq(field, k + 1, Len(field))))>> >>

RECURSIVE ParseFields(_, _)
ParseFields(fields, j) ==
    IF j > Len(fields) THEN <<>>
    ELSE ParseField(fields[j]) \o ParseFields(fields, j + 1)

\* urllib.parse.parse_qsl
parse_qsl(body) ==
    IF body = <<>> THEN <<>> ELSE ParseFields(SplitFrom(body, "&", 1), 1)

Unreserved == UpperCase \cup LowerCase \cup Digits \cup {"_", ".", "-", "~"}

QuoteChar(c) ==
    IF c \in Unreserved THEN <<c>>
    ELSE IF c = " " THEN <<"+">>
    ELSE <<"%", HexDigits[(Ord(c) \div 16) + 1], HexDigits[(Ord(c) % 16) + 1]>>

RECURSIVE QuoteFrom(_, _)
QuoteFrom(s, i) ==
    IF i > Len(s) THEN <<>> ELSE QuoteChar(s[i]) \o QuoteFrom(s, i + 1)

\* urllib.parse.quote_plus: how a client URL-encodes a form field
quote_plus(s) == QuoteFrom(s, 1)

QueryFieldName == <<"q","u","e","r","y">>

\* the URL-encoded form body that carries q in the field named query
FormBody(q) == QueryFieldName \o <<"=">> \o quote_plus(q)

\* Optional[str]: the query parameter of a handler
NoQuery == [present |-> FALSE, text |-> <<>>]

SomeQuery(text) == [present |-> TRUE, text |-> text]

\* not query
Falsy(query) == ~query.present \/ query.text = <<>>

RECURSIVE LastQueryParam(_, _, _)
\* lines 286-288: for params in parsed_query: if params[0] == "query": ...
LastQueryParam(params, j, query) ==
    IF j > Len(params) THEN query
    ELSE LastQueryParam(params, j + 1,
             IF params[j][1] = QueryFieldName
             THEN SomeQuery(unquote(params[j][2])) ELSE query)

\* lines 281-288: the query post_sparql_endpoint hands to sparql_endpoint
PostQuery(query, body) ==
    IF Falsy(query) THEN LastQueryParam(parse_qsl(body), 1, query) ELSE query

----------------------------------------------------------------------------
(* State.                                                                  *)

VARIABLES
    routers,        \* the SparqlRouter objects constructed so far, in order
    CUSTOM_EVALS,   \* rdflib.plugins.sparql.CUSTOM_EVALS["evalCustomFunctions"]
    request,        \* the HTTP request in flight
    lib,            \* what rdflib does with the query of the request in flight
    response,       \* the response to the request in flight
    run,            \* what the handler did to produce the response
    evaluation      \* one call of eval_custom_functions: arguments and return

vars == <<routers, CUSTOM_EVALS, request, lib, response, run, evaluation>>

\* no hook installed yet
NoHook == [kind |-> "unset", router |-> 0]

\* a bound method: router.eval_custom_functions
MethodHook(r) == [kind |-> "method", router |-> r]

\* the custom_eval callable passed to the constructor of router r
CustomHook(r) == [kind |-> "custom", router |-> r]

\* custom_eval=None
NoEval == "(none)"

\* functions=None
NoFunctions == [given |-> FALSE, value |-> <<>>]

GivenFunctions(registry) == [given |-> TRUE, value |-> registry]

Entry(uri, fn) == [uri |-> uri, fn |-> fn]

\* line 139: self.functions = functions if functions is not None else {}
FunctionsOrEmpty(functions) == IF functions.given THEN functions.value ELSE <<>>

\* lines 161-164: the hook the constructor of router r installs
InstalledHook(r, custom_eval) ==
    IF custom_eval # NoEval THEN CustomHook(r) ELSE MethodHook(r)

NoRequest ==
    [kind |-> "none", router |-> 0, method |-> "", accept |-> NoHeader,
     query |-> NoQuery, body |-> <<>>, sent |-> <<>>]

NoAlgebra ==
    [ok |-> FALSE, name |-> <<>>, root |-> "", expr |-> NoExpr,
     var |-> "x", p |-> <<>>]

NoLib == [algebra |-> NoAlgebra, serializable |-> FALSE]

NoBody == [kind |-> "none", text |-> "", format |-> "", content |-> <<>>]

NoResponse == [status |-> 0, media_type |-> "", body |-> NoBody]

NotNegotiated == [reached |-> FALSE, mime |-> "", format |-> ""]

NoRun ==
    [handed |-> NoQuery, steps |-> <<>>, negotiated |-> NotNegotiated,
     calls |-> <<>>]

NoEvaluation ==
    [called |-> FALSE, functions |-> <<>>, ctx |-> [bound |-> {}, gen |-> 0],
     part |-> [name |-> "", p |-> <<>>, var |-> "x", expr |-> NoExpr],
     returned |-> [results |-> <<>>, ctx |-> [bound |-> {}, gen |-> 0],
                   part |-> [name |-> "", p |-> <<>>, var |-> "x", expr |-> NoExpr],
                   calls |-> <<>>, status |-> ""]]

----------------------------------------------------------------------------
(* Query execution: self.graph.query(query, processor=self.processor),     *)
(* line 227.  rdflib evaluates the algebra and hands every node to the     *)
(* hook in CUSTOM_EVALS first; a hook that raises NotImplementedError      *)
(* leaves the node to rdflib's own evaluation.                             *)

TopContext == [bound |-> {}, gen |-> 0]

RootPart(algebra) ==
    [name |-> algebra.root, p |-> algebra.p, var |-> algebra.var,
     expr |-> algebra.expr]

RECURSIVE DefaultExtend(_, _, _)
\* rdflib's evalExtend: an expression in error leaves the binding as it is
DefaultExtend(part, ctx, i) ==
    IF i > Len(part.p) THEN <<>>
    ELSE LET c == part.p[i]
             e == IF part.expr.kind = "builtin"
                  THEN BuiltinEval(part.expr, forget(c, ctx, PartVars(part)))
                  ELSE [error |-> TRUE, value |-> Unbound]
         IN  <<IF e.error THEN c ELSE merge(c, part.var, e.value)>>
             \o DefaultExtend(part, ctx, i + 1)

\* rdflib's evaluation of a node no hook took
DefaultEval(part, ctx) ==
    [results |-> IF part.name = "Extend" THEN DefaultExtend(part, ctx, 1)
                 ELSE part.p,
     ctx |-> ctx, part |-> part, calls |-> <<>>, status |-> "ok"]

\* the hook applied to the root node; the custom_eval of a host is modelled
\* as a callable that declines every node
CallHook(hook, allRouters, ctx, part) ==
    IF hook.kind = "method"
    THEN eval_custom_functions(allRouters[hook.router].functions, ctx, part)
    ELSE [results |-> <<>>, ctx |-> ctx, part |-> part, calls |-> <<>>,
          status |-> "NotImplementedError"]

GraphQuery(hook, allRouters, algebra) ==
    LET part == RootPart(algebra)
        hooked == CallHook(hook, allRouters, TopContext, part)
    IN  IF hooked.status = "NotImplementedError"
        THEN DefaultEval(part, TopContext) ELSE hooked

----------------------------------------------------------------------------
(* sparql_endpoint, lines 173-267.                                         *)

Outcome(resp, handed, steps, negotiated, calls) ==
    [response |-> resp,
     run |-> [handed |-> handed, steps |-> steps, negotiated |-> negotiated,
              calls |-> calls]]

\* JSONResponse(status_code=..., content={"message": ...})
JSONMessage(status, message) ==
    [status |-> status, media_type |-> "application/json",
     body |-> [kind |-> "message", text |-> message, format |-> "json",
               content |-> <<>>]]

\* Response(query_results.serialize(format=rdflib_format), media_type=...)
ResultResponse(mime, format, query, results) ==
    [status |-> 200, media_type |-> mime,
     body |-> [kind |-> "results", text |-> "", format |-> format,
               content |-> <<query.text, results>>]]

\* request.headers["accept"] of a request without the header: the KeyError
\* leaves the handler and the server answers 500
UnhandledError(error) ==
    [status |-> 500, media_type |-> "text/plain",
     body |-> [kind |-> "unhandled", text |-> error, format |-> "",
               content |-> <<>>]]

\* serve_yasgui, lines 326-337
serve_yasgui ==
    [status |-> 200, media_type |-> "text/html",
     body |-> [kind |-> "html", text |-> "yasgui.html", format |-> "html",
               content |-> <<>>]]

RECURSIVE RegisteredUris(_, _)
RegisteredUris(functions, j) ==
    IF j > Len(functions) THEN <<>>
    ELSE <<functions[j].uri>> \o RegisteredUris(functions, j + 1)

\* get_service_graph, lines 339-367: the template and, for every registered
\* URI, the sd:Function and sd:extensionFunction triples
get_service_graph(functions) == RegisteredUris(functions, 1)

\* lines 187-196
ServiceResponse(accept, service_graph) ==
    IF accept = "text/turtle"
    THEN [status |-> 200, media_type |-> "text/turtle",
          body |-> [kind |-> "service", text |-> "", format |-> "turtle",
                    content |-> service_graph]]
    ELSE [status |-> 200, media_type |-> "application/xml",
          body |-> [kind |-> "service", text |-> "", format |-> "xml",
                    content |-> service_graph]]

\* lines 180-196: the request has no query
WithoutQuery(self, allRouters, accept, query) ==
    LET resp ==
          IF accept = NoHeader THEN UnhandledError("KeyError")
          ELSE IF StartsWithTextHtml(accept) THEN serve_yasgui
          ELSE ServiceResponse(accept,
                               get_service_graph(allRouters[self].functions))
    IN  Outcome(resp, query, <<>>, NotNegotiated, <<>>)

\* lines 235-267: negotiation and serialization of the results
Serialize(accept, query_operation, query, executed, theLib) ==
    LET mime == output_mime_type_of(accept, query_operation)
        rdflib_format == CONTENT_TYPE_TO_RDFLIB_FORMAT[mime]
        negotiated == [reached |-> TRUE, mime |-> mime, format |-> rdflib_format]
        steps == <<"prepareQuery", "graph.query", "serialize">>
    IN  IF theLib.serializable
        THEN Outcome(ResultResponse(mime, rdflib_format, query, executed.results),
                     query, steps, negotiated, executed.calls)
        ELSE Outcome(JSONMessage(422, "Error serializing the SPARQL query results"),
                     query, steps, negotiated, executed.calls)

\* Execute without the except clause of lines 228-233
Execute_NoFailureCheck(hook, allRouters, accept, query, theLib) ==
    Serialize(accept, query_operation_of(theLib.algebra.name), query,
              GraphQuery(hook, allRouters, theLib.algebra), theLib)

\* lines 226-233, then the rest
Execute(hook, allRouters, accept, query, theLib) ==
    LET query_operation == query_operation_of(theLib.algebra.name)
        executed == GraphQuery(hook, allRouters, theLib.algebra)
    IN  IF executed.status # "ok"
        THEN Outcome(JSONMessage(400,
                        "Error executing the SPARQL query on the RDFLib Graph"),
                     query, <<"prepareQuery", "graph.query">>, NotNegotiated,
                     executed.calls)
        ELSE Serialize(accept, query_operation, query, executed, theLib)

\* lines 204-215, then the rest
WithQuery(hook, allRouters, accept, query, theLib) ==
    IF ~theLib.algebra.ok
    THEN Outcome(JSONMessage(400, "Error parsing the SPARQL query"),
                 query, <<"prepareQuery">>, NotNegotiated, <<>>)
    ELSE Execute(hook, allRouters, accept, query, theLib)

sparql_endpoint(self, hook, allRouters, accept, query, theLib) ==
    IF Falsy(query)
    THEN WithoutQuery(self, allRouters, accept, query)
    ELSE WithQuery(hook, allRouters, accept, query, theLib)

\* lines 275-289
post_sparql_endpoint(self, hook, allRouters, accept, query, body, theLib) ==
    sparql_endpoint(self, hook, allRouters, accept, PostQuery(query, body), theLib)

----------------------------------------------------------------------------
(* The inputs of the model.                                                *)

\* the arguments of the constructor calls
RouterArgs ==
    {[functions |-> NoFunctions, custom_eval |-> NoEval],
     [functions |-> GivenFunctions(<<Entry("urn:f", "append")>>),
      custom_eval |-> NoEval],
     [functions |-> GivenFunctions(<<Entry("urn:f", "latest"),
                                     Entry("urn:g", "raise")>>),
      custom_eval |-> NoEval],
     [functions |-> NoFunctions, custom_eval |-> "host_eval"]}

BindingA == [v \in Vars |-> IF v = "x" THEN <<"URIRef", "a">> ELSE Unbound]

BindingB == [v \in Vars |-> IF v = "x" THEN <<"Literal", "b">> ELSE Unbound]

BindingC == [v \in Vars |-> IF v = "y" THEN <<"URIRef", "c">> ELSE Unbound]

\* the expressions of the BIND clause of the queries sent over HTTP
HttpExprs ==
    {BuiltinExpr("const", "x"), BuiltinExpr("error", "x"),
     FunctionCall("urn:f"), FunctionCall("urn:g")}

\* what prepareQuery returns for the queries sent over HTTP: a parse error,
\* a query without BIND, or a query with one BIND over two solutions
HttpAlgebras ==
    {NoAlgebra}
    \cup {[ok |-> TRUE, name |-> n, root |-> "BGP", expr |-> NoExpr,
           var |-> "x", p |-> <<BindingA, BindingB>>] : n \in AlgebraNames}
    \cup {[ok |-> TRUE, name |-> n, root |-> "Extend", expr |-> e,
           var |-> "y", p |-> <<BindingA, BindingB>>] :
          n \in AlgebraNames, e \in HttpExprs}

HttpLibs ==
    {[algebra |-> a, serializable |-> ok] :
     a \in HttpAlgebras, ok \in BOOLEAN}

\* the text of the queries sent by GET: what it means is in lib
GetQueryText == <<"q">>

\* the characters of the query texts sent by POST
QueryChars == {"q", " ", "%", "2", "5"}

RECURSIVE TextsOfLength(_)
TextsOfLength(n) ==
    IF n = 0 THEN {<<>>}
    ELSE {Append(t, c) : t \in TextsOfLength(n - 1), c \in QueryChars}

PostQueryTexts == UNION {TextsOfLength(n) : n \in 1..MaxQueryLen}

PostAccepts == {NoHeader, "text/turtle", "application/json", "text/html"}

PostLibs ==
    {[algebra |-> a, serializable |-> TRUE] :
     a \in {NoAlgebra,
            [ok |-> TRUE, name |-> SelectQuery, root |-> "BGP", expr |-> NoExpr,
             var |-> "x", p |-> <<BindingA>>]}}

----------------------------------------------------------------------------
(* The endpoint: construction of routers and GET requests.                 *)

Init ==
    /\ routers = <<>>
    /\ CUSTOM_EVALS = NoHook
    /\ request = NoRequest
    /\ lib = NoLib
    /\ response = NoResponse
    /\ run = NoRun
    /\ evaluation = NoEvaluation

\* SparqlRouter.__init__, lines 116-164
Construct ==
    /\ Len(routers) < MaxRouters
    /\ request = NoRequest
    /\ \E args \in RouterArgs :
          /\ routers' = Append(routers,
                 [functions |-> FunctionsOrEmpty(args.functions),
                  custom_eval |-> args.custom_eval])
          /\ CUSTOM_EVALS' = InstalledHook(Len(routers) + 1, args.custom_eval)
    /\ UNCHANGED <<request, lib, response, run, evaluation>>

\* a client sends GET path?query=... or GET path to one of the routers
ReceiveGet ==
    /\ request = NoRequest
    /\ \E r \in 1..Len(routers), accept \in AcceptValues \cup {NoHeader},
          query \in {NoQuery, SomeQuery(<<>>), SomeQuery(GetQueryText)} :
          /\ request' = [kind |-> "request", router |-> r, method |-> "GET",
                         accept |-> accept, query |-> query, body |-> <<>>,
                         sent |-> query.text]
          /\ \E l \in HttpLibs :
                /\ Falsy(query) => l = NoLib
                /\ lib' = l
    /\ UNCHANGED <<routers, CUSTOM_EVALS, response, run, evaluation>>

\* the GET route: sparql_endpoint(request, query)
HandleGet ==
    /\ request.kind = "request"
    /\ request.method = "GET"
    /\ response = NoResponse
    /\ LET out == sparql_endpoint(request.router, CUSTOM_EVALS, routers,
                                  request.accept, request.query, lib)
       IN  /\ response' = out.response
           /\ run' = out.run
    /\ UNCHANGED <<routers, CUSTOM_EVALS, request, lib, evaluation>>

\* the response leaves the server
Deliver ==
    /\ response # NoResponse
    /\ request' = NoRequest
    /\ lib' = NoLib
    /\ response' = NoResponse
    /\ run' = NoRun
    /\ UNCHANGED <<routers, CUSTOM_EVALS, evaluation>>

Next == Construct \/ ReceiveGet \/ HandleGet \/ Deliver

Spec == Init /\ [][Next]_vars

----------------------------------------------------------------------------
(* POST requests to a process with one router, SparqlRouter().             *)

InitPost ==
    /\ routers = <<[functions |-> FunctionsOrEmpty(NoFunctions),
                    custom_eval |-> NoEval]>>
    /\ CUSTOM_EVALS = InstalledHook(1, NoEval)
    /\ request = NoRequest
    /\ lib = NoLib
    /\ response = NoResponse
    /\ run = NoRun
    /\ evaluation = NoEvaluation

\* a client sends POST path?query=q
ReceivePostParam ==
    /\ request = NoRequest
    /\ \E q \in PostQueryTexts, accept \in PostAccepts, l \in PostLibs :
          /\ request' = [kind |-> "request", router |-> 1, method |-> "POST",
                         accept |-> accept, query |-> SomeQuery(q),
                         body |-> <<>>, sent |-> q]
          /\ lib' = l
    /\ UNCHANGED <<routers, CUSTOM_EVALS, response, run, evaluation>>

\* a client sends POST path with the body query=<q, URL-encoded>, or with an
\* empty body
ReceivePostBody ==
    /\ request = NoRequest
    /\ \E q \in PostQueryTexts \cup {<<>>}, accept \in PostAccepts,
          l \in PostLibs :
          /\ request' = [kind |-> "request", router |-> 1, method |-> "POST",
                         accept |-> accept, query |-> NoQuery,
                         body |-> IF q = <<>> THEN <<>> ELSE FormBody(q),
                         sent |-> q]
          /\ q = <<>> => l = NoLib
          /\ lib' = l
    /\ UNCHANGED <<routers, CUSTOM_EVALS, response, run, evaluation>>

\* the POST route: post_sparql_endpoint(request, query)
HandlePost ==
    /\ request.kind = "request"
    /\ request.method = "POST"
    /\ response = NoResponse
    /\ LET out == post_sparql_endpoint(request.router, CUSTOM_EVALS, routers,
                                       request.accept, request.query,
                                       request.body, lib)
       IN  /\ response' = out.response
           /\ run' = out.run
    /\ UNCHANGED <<routers, CUSTOM_EVALS, request, lib, evaluation>>

NextPost == ReceivePostParam \/ ReceivePostBody \/ HandlePost \/ Deliver

SpecPost == InitPost /\ [][NextPost]_vars

----------------------------------------------------------------------------
(* eval_custom_functions called on its own, as rdflib calls the hook.      *)

RECURSIVE SeqsOfLength(_, _)
SeqsOfLength(S, n) ==
    IF n = 0 THEN {<<>>}
    ELSE {Append(t, e) : t \in SeqsOfLength(S, n - 1), e \in S}

\* the registries: a dict keeps its keys distinct and in insertion order
EvalRegistries ==
    {<<>>}
    \cup {<<Entry(u, fn)>> : u \in FunctionUris, fn \in FunctionImpls}
    \cup {<<Entry(u, fn1), Entry(OtherUri(u), fn2)>> :
          u \in FunctionUris, fn1 \in FunctionImpls, fn2 \in FunctionImpls}

EvalContexts == {[bound |-> b, gen |-> 0] : b \in {{}, {"x"}}}

EvalChildren ==
    UNION {SeqsOfLength({BindingA, BindingB, BindingC}, n) : n \in 0..MaxBindings}

EvalExprs ==
    {BuiltinExpr("const", "x"), BuiltinExpr("var", "x"),
     BuiltinExpr("var", "y"), BuiltinExpr("error", "x"),
     FunctionCall("urn:f"), FunctionCall("urn:g")}

EvalParts ==
    {[name |-> "Extend", p |-> p, var |-> v, expr |-> e] :
     p \in EvalChildren, v \in Vars, e \in EvalExprs}
    \cup {[name |-> "BGP", p |-> <<BindingA>>, var |-> "x", expr |-> NoExpr]}

InitEval == Init

\* rdflib reaches a node of the algebra and calls the hook on it
EvalCall ==
    /\ ~evaluation.called
    /\ \E functions \in EvalRegistries, ctx \in EvalContexts, part \in EvalParts :
          evaluation' = [NoEvaluation EXCEPT !.called = TRUE,
                                              !.functions = functions,
                                              !.ctx = ctx, !.part = part]
    /\ UNCHANGED <<routers, CUSTOM_EVALS, request, lib, response, run>>

\* eval_custom_functions(ctx, part) returns or raises
EvalReturn ==
    /\ evaluation.called
    /\ evaluation.returned.status = ""
    /\ evaluation' = [evaluation EXCEPT !.returned =
           eval_custom_functions(evaluation.functions, evaluation.ctx,
                                 evaluation.part)]
    /\ UNCHANGED <<routers, CUSTOM_EVALS, request, lib, response, run>>

\* rdflib goes on with the next node
EvalDone ==
    /\ evaluation.returned.status # ""
    /\ evaluation' = NoEvaluation
    /\ UNCHANGED <<routers, CUSTOM_EVALS, request, lib, response, run>>

NextEval == EvalCall \/ EvalReturn \/ EvalDone

SpecEval == InitEval /\ [][NextEval]_vars

----------------------------------------------------------------------------
(* The claims.                                                             *)

\* the handler has answered the request in flight
Answered == response # NoResponse

\* the handler has answered a request whose query reached negotiation
Negotiated == Answered /\ run.negotiated.reached

IsConstruct == lib.algebra.name = ConstructQuery

ListedAs(accept, formats) ==
    /\ accept \in DOMAIN CONTENT_TYPE_TO_RDFLIB_FORMAT
    /\ CONTENT_TYPE_TO_RDFLIB_FORMAT[accept] \in formats

\* the media type and the serializer format of the answer are these
AnswersAs(mime, format) ==
    /\ run.negotiated.mime = mime
    /\ run.negotiated.format = format
    /\ response.status = 200 =>
          response.media_type = mime /\ response.body.format = format

\* C1: a Construct Query whose Accept value the table lists as json or csv
\* is answered as text/turtle with the ttl serializer.
C1_ConstructJsonCsvIsTurtle ==
    (Negotiated /\ IsConstruct /\ ListedAs(request.accept, {"json", "csv"}))
        => AnswersAs("text/turtle", "ttl")

\* C2: a Construct Query whose Accept value the table lists as xml is
\* answered as application/rdf+xml with the xml serializer, and one whose
\* Accept value is listed as any other format than json, csv or xml keeps
\* its Accept value as media type.
C2_ConstructXmlIsRdfXml ==
    /\ (Negotiated /\ IsConstruct /\ ListedAs(request.accept, {"xml"}))
          => AnswersAs("application/rdf+xml", "xml")
    /\ (Negotiated /\ IsConstruct /\ ListedAs(request.accept, {"ttl"}))
          => AnswersAs(request.accept,
                       CONTENT_TYPE_TO_RDFLIB_FORMAT[request.accept])

Unlisted(accept) == accept \notin DOMAIN CONTENT_TYPE_TO_RDFLIB_FORMAT

\* C3, as stated: an Accept value that is no key of the table (or no Accept
\* header) resolves to application/xml, whatever the operation of the query.
C3_UnlistedIsApplicationXml ==
    (Negotiated /\ Unlisted(request.accept))
        => AnswersAs("application/xml", "xml")

\* C3, amended: an Accept value that is no key of the table (or no Accept
\* header) resolves to the xml serializer, with media type application/xml
\* for every operation but Construct Query and application/rdf+xml for a
\* Construct Query.
C3_UnlistedIsXml ==
    (Negotiated /\ Unlisted(request.accept))
        => AnswersAs(IF IsConstruct THEN "application/rdf+xml"
                     ELSE "application/xml", "xml")

\* a Construct Query without Accept header was answered with status 200
C3_Witness ==
    /\ Negotiated /\ request.accept = NoHeader /\ IsConstruct
    /\ response.status = 200 /\ response.media_type = "application/rdf+xml"

\* the body is a JSON object with the single field message, without payload
IsMessage(resp) ==
    /\ resp.media_type = "application/json"
    /\ resp.body.kind = "message"
    /\ resp.body.text # ""
    /\ resp.body.content = <<>>

\* graph.query raises for the query in flight
ExecutionFails ==
    GraphQuery(CUSTOM_EVALS, routers, lib.algebra).status # "ok"

\* C4: a request with a query ends in exactly one of four outcomes, decided
\* in the order parse, execute, serialize: 400 and nothing executed when
\* parsing fails, 400 and nothing serialized when execution fails, 422 when
\* serialization fails, 200 with the results in the negotiated media type
\* otherwise; the three failures carry a message and no result.
C4_OneOutcomeInOrder ==
    (Answered /\ ~Falsy(run.handed)) =>
        /\ ~lib.algebra.ok =>
              /\ response.status = 400
              /\ run.steps = <<"prepareQuery">>
        /\ (lib.algebra.ok /\ ExecutionFails) =>
              /\ response.status = 400
              /\ run.steps = <<"prepareQuery", "graph.query">>
        /\ (lib.algebra.ok /\ ~ExecutionFails /\ ~lib.serializable) =>
              /\ response.status = 422
              /\ run.steps = <<"prepareQuery", "graph.query", "serialize">>
        /\ (lib.algebra.ok /\ ~ExecutionFails /\ lib.serializable) =>
              /\ response.status = 200
              /\ run.steps = <<"prepareQuery", "graph.query", "serialize">>
              /\ response.body.kind = "results"
              /\ response.media_type = run.negotiated.mime
              /\ response.body.format =
                    CONTENT_TYPE_TO_RDFLIB_FORMAT[response.media_type]
        /\ response.status \in {200, 400, 422}
        /\ response.status # 200 => IsMessage(response)

\* a query that parsed and whose custom function raised was answered
C4_Witness ==
    /\ Answered /\ lib.algebra.ok /\ ExecutionFails
    /\ run.calls # <<>>
    /\ response.status = 400

UrisOf(functions) == {functions[j].uri : j \in 1..Len(functions)}

\* C5: a query whose BIND calls a function URI that the router has not
\* registered is answered with status 400.
C5_UnregisteredFunctionFails ==
    (/\ Answered /\ lib.algebra.ok /\ lib.algebra.root = "Extend"
     /\ HasIri(lib.algebra.expr)
     /\ lib.algebra.expr.iri \notin UrisOf(routers[request.router].functions))
        => response.status = 400

\* C6: a POST whose form body carries q in the field query, without query
\* parameter, hands q itself to the GET handler and is answered as the
\* request that carries q as query parameter.
C6_PostBodyLikeParameter ==
    (/\ Answered /\ request.method = "POST" /\ ~request.query.present
     /\ request.sent # <<>> /\ request.body = FormBody(request.sent))
        => /\ run.handed = SomeQuery(request.sent)
           /\ response =
                 sparql_endpoint(request.router, CUSTOM_EVALS, routers,
                                 request.accept, SomeQuery(request.sent),
                                 lib).response

\* C7: a request without query gets the console page when Accept starts
\* with text/html, and otherwise (whatever the Accept header, absent
\* included) a 200 service description, as turtle for Accept text/turtle
\* and as XML with media type application/xml for the rest.
C7_NoQueryIsServed ==
    (Answered /\ Falsy(run.handed)) =>
        IF request.accept # NoHeader /\ StartsWithTextHtml(request.accept)
        THEN response = serve_yasgui
        ELSE /\ response.status = 200
             /\ response.body.kind = "service"
             /\ IF request.accept = "text/turtle"
                THEN response.media_type = "text/turtle"
                     /\ response.body.format = "turtle"
                ELSE response.media_type = "application/xml"
                     /\ response.body.format = "xml"

Returned == evaluation.called /\ evaluation.returned.status = "ok"

\* C8: for an Extend node with a built-in expression whose evaluation
\* raises no error, the result has one binding per binding of the child,
\* in the same order: the i-th is the i-th of the child with the target
\* variable bound to the literal of the value of the expression.
C8_BuiltinExtendInOrder ==
    (/\ Returned /\ evaluation.part.name = "Extend"
     /\ evaluation.part.expr.kind = "builtin") =>
        LET part == evaluation.part
            results == evaluation.returned.results
            valueAt(i) == IF part.expr.op = "const" THEN "k"
                          ELSE part.p[i][part.expr.arg][2]
        IN  /\ Len(results) = Len(part.p)
            /\ \A i \in 1..Len(part.p) :
                  /\ results[i][part.var] = <<"Literal", valueAt(i)>>
                  /\ \A v \in Vars \ {part.var} : results[i][v] = part.p[i][v]
            /\ evaluation.returned.calls = <<>>

\* two different bindings were extended with the value of a variable
C8_Witness ==
    /\ Returned /\ evaluation.part.expr = BuiltinExpr("var", "x")
    /\ evaluation.part.var = "y"
    /\ evaluation.part.p = <<BindingB, BindingA>>
    /\ Len(evaluation.returned.results) = 2

\* the calls are a left fold over the bindings of the child: one call per
\* binding, of the function registered for the URI of the expression, each
\* given what the call before returned, and the last one's results returned
IsLeftFold ==
    LET part == evaluation.part
        calls == evaluation.returned.calls
        n == Len(part.p)
    IN  /\ Len(calls) = n
        /\ \A i \in 1..Len(calls) :
              /\ calls[i].uri = part.expr.iri
              /\ [uri |-> calls[i].uri, fn |-> calls[i].fn] \in
                    {evaluation.functions[j] :
                     j \in 1..Len(evaluation.functions)}
              /\ i <= n => calls[i].eval_part = part.p[i]
              /\ calls[i].results =
                    IF i = 1 THEN <<>> ELSE calls[i-1].out.results
              /\ calls[i].ctx =
                    IF i = 1 THEN evaluation.ctx ELSE calls[i-1].out.ctx
              /\ calls[i].part = IF i = 1 THEN part ELSE calls[i-1].out.part
        /\ evaluation.returned.results =
              IF calls = <<>> THEN <<>> ELSE calls[Len(calls)].out.results

RegisteredCall ==
    /\ Returned /\ evaluation.part.name = "Extend"
    /\ HasIri(evaluation.part.expr)
    /\ evaluation.part.expr.iri \in UrisOf(evaluation.functions)

\* every call returned a node with the expression it was given
ExpressionKept ==
    \A k \in 1..Len(evaluation.returned.calls) :
        evaluation.returned.calls[k].out.part.expr =
            evaluation.returned.calls[k].part.expr

\* C9, as stated: for an Extend node whose expression calls a registered
\* URI, a call of eval_custom_functions that returns is a left fold over the
\* bindings of the child with exactly one call, of the function of that URI,
\* per binding.
C9_LeftFold == RegisteredCall => IsLeftFold

\* C9, amended: the same, as long as the function returns a node whose
\* expression still calls the same URI.
C9_LeftFoldWhileExpressionKept ==
    (RegisteredCall /\ ExpressionKept) => IsLeftFold

\* a function that changes the context was called once for each of two
\* bindings
C9_Witness ==
    /\ RegisteredCall /\ ExpressionKept
    /\ Len(evaluation.returned.calls) = 2
    /\ evaluation.returned.calls[2].ctx # evaluation.ctx

\* C10: a query sent to a router invokes only custom functions of the
\* registry of that router.
C10_OwnRegistryOnly ==
    Answered =>
        \A k \in 1..Len(run.calls) :
            \E j \in 1..Len(routers[request.router].functions) :
                /\ routers[request.router].functions[j].uri = run.calls[k].uri
                /\ routers[request.router].functions[j].fn = run.calls[k].fn

====
